---- MODULE Spec2Model ----
(***************************************************************************)
(* Model of nadi-cli (src/main.rs): main's dispatch over the command-line  *)
(* flags, show_tasks, and execute_tasks (tokenize, parse, optional print,  *)
(* network load, one TaskContext, the statement loop).                     *)
(*                                                                         *)
(* nadi_core (tokenizer, parser, TaskContext::execute) is a library the    *)
(* program calls; its behaviour is taken from the specification's          *)
(* contracts (4.1, 4.2, 4.4) and is nondeterministic where the contract    *)
(* leaves the outcome to the registered function.                          *)
(***************************************************************************)
EXTENDS Naturals, Sequences, FiniteSets

\* Longest script (in statements) a script source may hold.
MaxStmts == 2

VARIABLES
    args,       \* CliArgs, fixed by CliArgs::parse()
    pc,         \* position in main / show_tasks / execute_tasks
    src,        \* script source of the current execute_tasks call
    called,     \* sources execute_tasks has been called for, in call order
    results,    \* the results those calls returned, in order
    stdinRead,  \* read_to_string has been called on stdin
    actions,    \* introspection actions main has performed
    exit,       \* how the process ended ("" while running)
    txt,        \* script text handed to execute_tasks / read by show_tasks
    tokens,     \* execute_tasks: let tokens
    tasks,      \* execute_tasks: let tasks
    net,        \* execute_tasks: let net
    tasks_ctx,  \* execute_tasks: let mut tasks_ctx
    idx,        \* statements the for loop has consumed
    stdout,     \* lines println! wrote during the current call
    history,    \* statements executed by the current call, in execution order
    ctxCount,   \* TaskContexts created by the current call
    loadCount,  \* Network::from_file calls made by the current call
    prevNet     \* network held by the context of the last finished call

vars == <<args, pc, src, called, results, stdinRead, actions, exit, txt, tokens,
          tasks, net, tasks_ctx, idx, stdout, history, ctxCount, loadCount, prevNet>>

locals == <<txt, tokens, tasks, net, tasks_ctx, idx, stdout, history, ctxCount, loadCount>>

----------------------------------------------------------------------------
\* Values

Scopes == {"Node", "Network"}

\* A parsed function call: its lexical scope and whether the registry resolves
\* its name in that scope.
Statements == [scope : Scopes, known : BOOLEAN]

RECURSIVE SeqsUpTo(_, _)
SeqsUpTo(S, n) ==
    IF n = 0 THEN {<<>>}
    ELSE LET shorter == SeqsUpTo(S, n - 1)
         IN  shorter \cup {Append(s, x) : s \in {t \in shorter : Len(t) = n - 1}, x \in S}

Scripts == SeqsUpTo(Statements, MaxStmts)

\* A script text: lexically bad, syntactically bad, or well formed; stmts are
\* the well-formed statements it holds (those before the error position, when
\* there is one).
Texts == [kind : {"lexbad", "parsebad", "ok"}, stmts : Scripts]

NoText == [kind |-> "none", stmts |-> <<>>]
NoTokens == [wellformed |-> FALSE, stmts |-> <<>>, made |-> FALSE]

\* Networks, by where their contents come from: absent, as loaded from the
\* --network file, or as made or changed by statement `by` of source `origin`.
NoNet == [origin |-> "none", by |-> 0]
FileNet == [origin |-> "file", by |-> 0]
MadeBy(s, i) == [origin |-> s, by |-> i]

NoCtx == [live |-> FALSE, network |-> NoNet]

OkRes == [kind |-> "Ok", err |-> "", at |-> 0]
ErrRes(e, i) == [kind |-> "Err", err |-> e, at |-> i]

----------------------------------------------------------------------------
\* nadi_core, from its contracts

\* tokenizer::get_tokens: the whole text is tokenized, or a LexError.
get_tokens(t) ==
    IF t.kind = "lexbad"
    THEN [ok |-> FALSE, val |-> NoTokens]
    ELSE [ok |-> TRUE,
          val |-> [wellformed |-> t.kind = "ok", stmts |-> t.stmts, made |-> TRUE]]

\* tasks::parse: the whole token sequence is parsed, or a ParseError.
parse(toks) ==
    IF toks.wellformed
    THEN [ok |-> TRUE, val |-> toks.stmts]
    ELSE [ok |-> FALSE, val |-> <<>>]

\* TaskContext::new
TaskContextNew(n) == [live |-> TRUE, network |-> n]

\* TaskContext::execute: the outcomes of executing fc, statement i of source
\* s, against a context whose network is n.
Execute(n, fc, s, i) ==
    IF ~fc.known
    THEN {[res |-> [kind |-> "Err", err |-> "UnknownFunction", at |-> i],
           network |-> n, invoked |-> FALSE]}
    ELSE IF fc.scope = "Node" /\ n = NoNet
    THEN {[res |-> [kind |-> "Err", err |-> "MissingNetwork", at |-> i],
           network |-> n, invoked |-> FALSE]}
    ELSE LET outs == {[kind |-> "Some", err |-> "", at |-> i],
                      [kind |-> "None", err |-> "", at |-> i],
                      [kind |-> "Err", err |-> "ExecutionFailure", at |-> i]}
             nets == IF fc.scope = "Node"
                     THEN {n, MadeBy(s, i)}
                     ELSE {n, NoNet, MadeBy(s, i)}
         IN  {[res |-> r, network |-> m, invoked |-> TRUE] : r \in outs, m \in nets}

----------------------------------------------------------------------------
\* CliArgs

Completions == {"none", "Node", "Network"}

ArgsSet ==
    {a \in [show : BOOLEAN, generate_doc : BOOLEAN, fnhelp : BOOLEAN,
            fncode : BOOLEAN, list_functions : BOOLEAN, completion : Completions,
            print_tasks : BOOLEAN, network : BOOLEAN, task : BOOLEAN,
            tasks : BOOLEAN, stdin : BOOLEAN] :
        a.show => a.tasks}

Init ==
    /\ args \in ArgsSet
    /\ pc = "main"
    /\ src = "none"
    /\ called = <<>>
    /\ results = <<>>
    /\ stdinRead = FALSE
    /\ actions = <<>>
    /\ exit = ""
    /\ txt = NoText
    /\ tokens = NoTokens
    /\ tasks = <<>>
    /\ net = NoNet
    /\ tasks_ctx = NoCtx
    /\ idx = 0
    /\ stdout = <<>>
    /\ history = <<>>
    /\ ctxCount = 0
    /\ loadCount = 0
    /\ prevNet = NoNet


----------------------------------------------------------------------------
\* main: the if / else-if chain over the flags

\* Mode without the --completion branch in the chain.
ModeNoCompletion(a) ==
    IF a.show THEN "show"
    ELSE IF a.generate_doc THEN "generate_doc"
    ELSE IF a.fnhelp THEN "fnhelp"
    ELSE IF a.fncode THEN "fncode"
    ELSE IF a.list_functions THEN "list_functions"
    ELSE "run"

\* The branch of main's chain that the flags select.
Mode(a) ==
    IF a.show THEN "show"
    ELSE IF a.generate_doc THEN "generate_doc"
    ELSE IF a.fnhelp THEN "fnhelp"
    ELSE IF a.fncode THEN "fncode"
    ELSE IF a.list_functions THEN "list_functions"
    ELSE IF a.completion # "none" THEN "completion"
    ELSE "run"

Line(tag, i) == [tag |-> tag, at |-> i]

\* One introspection branch that prints and falls through to Ok(()).
Introspect(m) ==
    /\ pc = "main"
    /\ Mode(args) = m
    /\ actions' = Append(actions, m)
    /\ stdout' = Append(stdout, Line(m, 0))
    /\ pc' = "exit"
    /\ exit' = "ok"
    /\ UNCHANGED <<args, src, called, results, stdinRead, txt, tokens, tasks, net,
                   tasks_ctx, idx, history, ctxCount, loadCount, prevNet>>

MainShow ==
    /\ pc = "main"
    /\ Mode(args) = "show"
    /\ actions' = Append(actions, "show")
    /\ pc' = "show_read"
    /\ UNCHANGED <<args, src, called, results, stdinRead, exit, locals, prevNet>>

\* functions.plugins_doc(&dir)? writes the documentation or fails.
MainGenerateDoc ==
    /\ pc = "main"
    /\ Mode(args) = "generate_doc"
    /\ actions' = Append(actions, "generate_doc")
    /\ pc' = "exit"
    /\ exit' \in {"ok", "err"}
    /\ UNCHANGED <<args, src, called, results, stdinRead, locals, prevNet>>

MainFnHelp == Introspect("fnhelp")

MainFnCode == Introspect("fncode")

MainListFunctions == Introspect("list_functions")

MainCompletion == Introspect("completion")

MainRun ==
    /\ pc = "main"
    /\ Mode(args) = "run"
    /\ pc' = "src_tasks"
    /\ UNCHANGED <<args, src, called, results, stdinRead, actions, exit, locals, prevNet>>

----------------------------------------------------------------------------
\* show_tasks

ShowReadOk ==
    /\ pc = "show_read"
    /\ \E t \in Texts : txt' = t
    /\ pc' = "show_tokens"
    /\ UNCHANGED <<args, src, called, results, stdinRead, actions, exit, tokens, tasks,
                   net, tasks_ctx, idx, stdout, history, ctxCount, loadCount, prevNet>>

\* read_to_string(filename).unwrap() panics when the file cannot be read.
ShowReadPanic ==
    /\ pc = "show_read"
    /\ pc' = "exit"
    /\ exit' = "panic"
    /\ UNCHANGED <<args, src, called, results, stdinRead, actions, locals, prevNet>>

ShowTokensOk ==
    /\ pc = "show_tokens"
    /\ get_tokens(txt).ok
    /\ tokens' = get_tokens(txt).val
    /\ stdout' = Append(stdout, Line("File Tokens", 0))
    /\ pc' = "show_parse"
    /\ UNCHANGED <<args, src, called, results, stdinRead, actions, exit, txt, tasks,
                   net, tasks_ctx, idx, history, ctxCount, loadCount, prevNet>>

ShowTokensErr ==
    /\ pc = "show_tokens"
    /\ ~get_tokens(txt).ok
    /\ stdout' = Append(stdout, Line("user_msg", 0))
    /\ pc' = "exit"
    /\ exit' = "ok"
    /\ UNCHANGED <<args, src, called, results, stdinRead, actions, txt, tokens, tasks,
                   net, tasks_ctx, idx, history, ctxCount, loadCount, prevNet>>

ShowParseOk ==
    /\ pc = "show_parse"
    /\ parse(tokens).ok
    /\ stdout' = stdout \o <<Line("Parsed Tasks", 0)>>
                        \o [i \in 1..Len(parse(tokens).val) |-> Line("task", i)]
    /\ pc' = "exit"
    /\ exit' = "ok"
    /\ UNCHANGED <<args, src, called, results, stdinRead, actions, txt, tokens, tasks,
                   net, tasks_ctx, idx, history, ctxCount, loadCount, prevNet>>

ShowParseErr ==
    /\ pc = "show_parse"
    /\ ~parse(tokens).ok
    /\ stdout' = Append(stdout, Line("user_msg", 0))
    /\ pc' = "exit"
    /\ exit' = "ok"
    /\ UNCHANGED <<args, src, called, results, stdinRead, actions, txt, tokens, tasks,
                   net, tasks_ctx, idx, history, ctxCount, loadCount, prevNet>>

----------------------------------------------------------------------------
\* main: the script sources

\* Where main continues after the section of source s.
NextPc(s) ==
    CASE s = "tasks" -> "src_task"
      [] s = "task"  -> "src_stdin"
      [] OTHER       -> "exit"

\* AfterReturn with the result of the call discarded.
AfterReturnIgnored(r, s) == NextPc(s)

\* execute_tasks(&functions, txt, &args)? : where main goes when the call for
\* source s returned r.
AfterReturn(r, s) == IF r.kind = "Err" THEN "exit" ELSE NextPc(s)

\* Entry of execute_tasks for source s with text t.
Call(s, t) ==
    /\ pc' = "get_tokens"
    /\ src' = s
    /\ called' = Append(called, s)
    /\ txt' = t
    /\ tokens' = NoTokens
    /\ tasks' = <<>>
    /\ net' = NoNet
    /\ tasks_ctx' = NoCtx
    /\ idx' = 0
    /\ stdout' = <<>>
    /\ history' = <<>>
    /\ ctxCount' = 0
    /\ loadCount' = 0

\* main skips the section of a source that was not given.
Skip(s) ==
    /\ pc' = NextPc(s)
    /\ exit' = IF NextPc(s) = "exit" THEN "ok" ELSE exit
    /\ UNCHANGED <<args, src, called, results, stdinRead, actions, locals, prevNet>>

\* A read that fails: the ? in main returns the io error.
ReadFails ==
    /\ pc' = "exit"
    /\ exit' = "err"
    /\ UNCHANGED <<args, src, called, results, actions, locals, prevNet>>

TasksFileRun ==
    /\ pc = "src_tasks"
    /\ args.tasks
    /\ \E t \in Texts : Call("tasks", t)
    /\ UNCHANGED <<args, results, stdinRead, actions, exit, prevNet>>

TasksFileReadErr ==
    pc = "src_tasks" /\ args.tasks /\ ReadFails /\ UNCHANGED stdinRead

TasksFileSkip == pc = "src_tasks" /\ ~args.tasks /\ Skip("tasks")

TaskStringRun ==
    /\ pc = "src_task"
    /\ args.task
    /\ \E t \in Texts : Call("task", t)
    /\ UNCHANGED <<args, results, stdinRead, actions, exit, prevNet>>

TaskStringSkip == pc = "src_task" /\ ~args.task /\ Skip("task")

StdinRun ==
    /\ pc = "src_stdin"
    /\ args.stdin
    /\ stdinRead' = TRUE
    /\ \E t \in Texts : Call("stdin", t)
    /\ UNCHANGED <<args, results, actions, exit, prevNet>>

StdinReadErr ==
    pc = "src_stdin" /\ args.stdin /\ ReadFails /\ stdinRead' = TRUE

StdinSkip == pc = "src_stdin" /\ ~args.stdin /\ Skip("stdin")

----------------------------------------------------------------------------
\* execute_tasks

\* Return of execute_tasks with result r, ctx being the context it holds then
\* (dropped here), followed by the ? of main.
Return(r, ctx) ==
    /\ results' = Append(results, r)
    /\ prevNet' = IF ctx.live THEN ctx.network ELSE prevNet
    /\ tasks_ctx' = NoCtx
    /\ pc' = AfterReturn(r, src)
    /\ exit' = IF AfterReturn(r, src) = "exit"
               THEN (IF r.kind = "Err" THEN "err" ELSE "ok")
               ELSE exit

GetTokensOk ==
    /\ pc = "get_tokens"
    /\ get_tokens(txt).ok
    /\ tokens' = get_tokens(txt).val
    /\ pc' = "parse"
    /\ UNCHANGED <<args, src, called, results, stdinRead, actions, exit, txt, tasks,
                   net, tasks_ctx, idx, stdout, history, ctxCount, loadCount, prevNet>>

GetTokensErr ==
    /\ pc = "get_tokens"
    /\ ~get_tokens(txt).ok
    /\ Return(ErrRes("LexError", 0), tasks_ctx)
    /\ UNCHANGED <<args, src, called, stdinRead, actions, txt, tokens, tasks, net,
                   idx, stdout, history, ctxCount, loadCount>>

ParseOk ==
    /\ pc = "parse"
    /\ parse(tokens).ok
    /\ tasks' = parse(tokens).val
    /\ pc' = "print_tasks"
    /\ UNCHANGED <<args, src, called, results, stdinRead, actions, exit, txt, tokens,
                   net, tasks_ctx, idx, stdout, history, ctxCount, loadCount, prevNet>>

\* ParseErr recovering: the statements before the error position are run.
ParseErrRecover ==
    /\ pc = "parse"
    /\ ~parse(tokens).ok
    /\ tasks' = tokens.stmts
    /\ pc' = "print_tasks"
    /\ UNCHANGED <<args, src, called, results, stdinRead, actions, exit, txt, tokens,
                   net, tasks_ctx, idx, stdout, history, ctxCount, loadCount, prevNet>>

ParseErr ==
    /\ pc = "parse"
    /\ ~parse(tokens).ok
    /\ Return(ErrRes("ParseError", 0), tasks_ctx)
    /\ UNCHANGED <<args, src, called, stdinRead, actions, txt, tokens, tasks, net,
                   idx, stdout, history, ctxCount, loadCount>>

\* if args.print_tasks { for fc in &tasks { println!(..) } }
PrintTasks ==
    /\ pc = "print_tasks"
    /\ args.print_tasks
    /\ stdout' = stdout \o [i \in 1..Len(tasks) |-> Line("task", i)]
    /\ pc' = "load_network"
    /\ UNCHANGED <<args, src, called, results, stdinRead, actions, exit, txt, tokens,
                   tasks, net, tasks_ctx, idx, history, ctxCount, loadCount, prevNet>>

PrintTasksOff ==
    /\ pc = "print_tasks"
    /\ ~args.print_tasks
    /\ pc' = "load_network"
    /\ UNCHANGED <<args, src, called, results, stdinRead, actions, exit, locals, prevNet>>

\* Some(Network::from_file(net)?), the file loading
LoadNetworkOk ==
    /\ pc = "load_network"
    /\ args.network
    /\ net' = FileNet
    /\ loadCount' = loadCount + 1
    /\ pc' = "new_ctx"
    /\ UNCHANGED <<args, src, called, results, stdinRead, actions, exit, txt, tokens,
                   tasks, tasks_ctx, idx, stdout, history, ctxCount, prevNet>>

\* Some(Network::from_file(net)?), the file failing to load
LoadNetworkErr ==
    /\ pc = "load_network"
    /\ args.network
    /\ loadCount' = loadCount + 1
    /\ Return(ErrRes("NetworkLoad", 0), tasks_ctx)
    /\ UNCHANGED <<args, src, called, stdinRead, actions, txt, tokens, tasks, net,
                   idx, stdout, history, ctxCount>>

LoadNetworkNone ==
    /\ pc = "load_network"
    /\ ~args.network
    /\ net' = NoNet
    /\ pc' = "new_ctx"
    /\ UNCHANGED <<args, src, called, results, stdinRead, actions, exit, txt, tokens,
                   tasks, tasks_ctx, idx, stdout, history, ctxCount, loadCount, prevNet>>

\* NewContext keeping the network of the previous call's context, if any.
NewContextCached ==
    /\ pc = "new_ctx"
    /\ tasks_ctx' = TaskContextNew(IF prevNet # NoNet THEN prevNet ELSE net)
    /\ ctxCount' = ctxCount + 1
    /\ pc' = "loop"
    /\ UNCHANGED <<args, src, called, results, stdinRead, actions, exit, txt, tokens,
                   tasks, net, idx, stdout, history, loadCount, prevNet>>

\* let mut tasks_ctx = TaskContext::new(net);
NewContext ==
    /\ pc = "new_ctx"
    /\ tasks_ctx' = TaskContextNew(net)
    /\ ctxCount' = ctxCount + 1
    /\ pc' = "loop"
    /\ UNCHANGED <<args, src, called, results, stdinRead, actions, exit, txt, tokens,
                   tasks, net, idx, stdout, history, loadCount, prevNet>>

\* NextTask iterating from the end of the script.
NextTaskRev(ts, i) == ts[Len(ts) - i]

\* for fc in tasks: the statement the iterator yields after i were consumed.
NextTask(ts, i) == ts[i + 1]

\* Receiver building a context from net for every statement.
ReceiverFresh == TaskContextNew(net)

\* The context the loop body calls execute on.
Receiver == tasks_ctx

\* match arm Ok(Some(p)) => println!("{p}")
Prints(res) == res.kind = "Some"

\* Stops with the Err arm falling into the catch-all arm.
StopsNever(res) == FALSE

\* Stops for failures of the invoked function only.
StopsOnFailureOnly(res) == res.kind = "Err" /\ res.err = "ExecutionFailure"

\* match arm Err(p) => return Err(..)
Stops(res) == res.kind = "Err"

\* The history entry of one executed statement.
Executed(i, fc, start, o) ==
    [idx |-> i, fc |-> fc, start |-> start, end |-> o.network, res |-> o.res,
     invoked |-> o.invoked]

\* One iteration of the loop whose statement lets the loop go on.
LoopStep ==
    /\ pc = "loop"
    /\ idx < Len(tasks)
    /\ LET fc == NextTask(tasks, idx)
           ctx == Receiver
       IN  \E o \in Execute(ctx.network, fc, src, idx + 1) :
             /\ ~Stops(o.res)
             /\ tasks_ctx' = [ctx EXCEPT !.network = o.network]
             /\ history' = Append(history, Executed(idx + 1, fc, ctx.network, o))
             /\ stdout' = IF Prints(o.res)
                          THEN Append(stdout, Line("out", o.res.at))
                          ELSE stdout
    /\ idx' = idx + 1
    /\ UNCHANGED <<args, pc, src, called, results, stdinRead, actions, exit, txt,
                   tokens, tasks, net, ctxCount, loadCount, prevNet>>

\* One iteration of the loop whose statement fails: return Err(..).
LoopStepErr ==
    /\ pc = "loop"
    /\ idx < Len(tasks)
    /\ LET fc == NextTask(tasks, idx)
           ctx == Receiver
       IN  \E o \in Execute(ctx.network, fc, src, idx + 1) :
             /\ Stops(o.res)
             /\ history' = Append(history, Executed(idx + 1, fc, ctx.network, o))
             /\ Return(ErrRes(o.res.err, o.res.at), [ctx EXCEPT !.network = o.network])
    /\ idx' = idx + 1
    /\ UNCHANGED <<args, src, called, stdinRead, actions, txt, tokens, tasks, net,
                   stdout, ctxCount, loadCount>>

\* LoopResult rejecting a script without statements.
LoopResultNonEmpty(ts) == IF ts = <<>> THEN ErrRes("NoTasks", 0) ELSE OkRes

\* The value execute_tasks returns when the loop has run out of statements.
LoopResult(ts) == OkRes

LoopExit ==
    /\ pc = "loop"
    /\ idx = Len(tasks)
    /\ Return(LoopResult(tasks), tasks_ctx)
    /\ UNCHANGED <<args, src, called, stdinRead, actions, txt, tokens, tasks, net,
                   idx, stdout, history, ctxCount, loadCount>>

----------------------------------------------------------------------------

Next ==
    \/ MainShow \/ MainGenerateDoc \/ MainFnHelp \/ MainFnCode
    \/ MainListFunctions \/ MainCompletion \/ MainRun
    \/ ShowReadOk \/ ShowReadPanic \/ ShowTokensOk \/ ShowTokensErr
    \/ ShowParseOk \/ ShowParseErr
    \/ TasksFileRun \/ TasksFileReadErr \/ TasksFileSkip
    \/ TaskStringRun \/ TaskStringSkip
    \/ StdinRun \/ StdinReadErr \/ StdinSkip
    \/ GetTokensOk \/ GetTokensErr \/ ParseOk \/ ParseErr
    \/ PrintTasks \/ PrintTasksOff
    \/ LoadNetworkOk \/ LoadNetworkErr \/ LoadNetworkNone
    \/ NewContext \/ LoopStep \/ LoopStepErr \/ LoopExit

Spec == Init /\ [][Next]_vars

----------------------------------------------------------------------------
\* Vocabulary of the properties

\* An execute_tasks call is in progress / the last one has returned.
InCall == Len(called) > Len(results)

Returned == called # <<>> /\ Len(results) = Len(called)

LastResult == results[Len(results)]

IsOut(l) == l.tag = "out"

IsTaskLine(l) == l.tag = "task"

IsSome(h) == h.res.kind = "Some"

\* The statement outputs println! wrote, as statement positions.
OutputsPrinted ==
    LET outs == SelectSeq(stdout, IsOut)
    IN  [i \in 1..Len(outs) |-> outs[i].at]

\* The positions of the executed statements that returned Ok(Some(_)).
OutputsReturned ==
    LET somes == SelectSeq(history, IsSome)
    IN  [i \in 1..Len(somes) |-> somes[i].idx]

\* The network the --network flag gives every call.
FlagNet == IF args.network THEN FileNet ELSE NoNet

----------------------------------------------------------------------------
\* C1: fail-fast execution. If execute returns an error for the statement at
\* position i (whatever the error kind), no statement at a later position is
\* executed, and execute_tasks has returned that very error.
C1_FailFast ==
    \A i \in 1..Len(history) :
        history[i].res.kind = "Err" =>
            /\ \A j \in 1..Len(history) : history[j].idx <= history[i].idx
            /\ i = Len(history)
            /\ Returned
            /\ LastResult = ErrRes(history[i].res.err, history[i].idx)

\* An unresolved name fails a statement that is not the last of its script.
C1_Witness ==
    /\ Returned
    /\ history # <<>>
    /\ history[Len(history)].res.err = "UnknownFunction"
    /\ Len(tasks) > Len(history)

\* C2: execution order is script order. The k-th statement executed is the
\* k-th statement of the parsed script, each executed at most once; the
\* statement outputs printed are exactly the Ok(Some(_)) results, in statement
\* order, and Ok(None) prints nothing.
C2_ScriptOrder ==
    /\ Len(history) = idx
    /\ Len(history) <= Len(tasks)
    /\ \A i \in 1..Len(history) : history[i].idx = i /\ history[i].fc = tasks[i]
    /\ OutputsPrinted = OutputsReturned

\* Two different statements ran to the end, one printing and one not.
C2_Witness ==
    /\ Returned
    /\ LastResult = OkRes
    /\ Len(history) = 2
    /\ history[1].fc # history[2].fc
    /\ history[1].res.kind = "None"
    /\ history[2].res.kind = "Some"

\* C3: all-or-nothing front end. A statement is executed, a TaskContext
\* created or the network file loaded only for a text that tokenized and parsed
\* in full, with tasks the whole parsed script; a call that ended in a lex or
\* parse error executed nothing, created no context and loaded no network.
C3_AllOrNothing ==
    /\ (history # <<>> \/ ctxCount > 0 \/ loadCount > 0) =>
           /\ txt.kind = "ok"
           /\ tokens = get_tokens(txt).val
           /\ tasks = txt.stmts
    /\ (Returned /\ LastResult.err \in {"LexError", "ParseError"}) =>
           /\ history = <<>>
           /\ ctxCount = 0
           /\ loadCount = 0
           /\ OutputsPrinted = <<>>

\* A parse error after well-formed statements, with --network given.
C3_Witness ==
    /\ Returned
    /\ LastResult.err = "ParseError"
    /\ txt.stmts # <<>>
    /\ args.network

\* C4: with --print-tasks, once the tasks of a script have been printed no
\* statement of that script is executed and the network file is not loaded.
C4_PrintTasksExits ==
    (/\ args.print_tasks
     /\ tasks # <<>>
     /\ Len(SelectSeq(stdout, IsTaskLine)) = Len(tasks)) =>
        /\ history = <<>>
        /\ loadCount = 0

\* The introspection flags, in the order main tests them.
AnyIntrospection(a) ==
    \/ a.show \/ a.generate_doc \/ a.fnhelp \/ a.fncode \/ a.list_functions
    \/ a.completion # "none"

FirstFlag(a) ==
    CASE a.show -> "show"
      [] ~a.show /\ a.generate_doc -> "generate_doc"
      [] ~a.show /\ ~a.generate_doc /\ a.fnhelp -> "fnhelp"
      [] ~a.show /\ ~a.generate_doc /\ ~a.fnhelp /\ a.fncode -> "fncode"
      [] ~a.show /\ ~a.generate_doc /\ ~a.fnhelp /\ ~a.fncode /\ a.list_functions
            -> "list_functions"
      [] OTHER -> "completion"

\* C5: with any introspection flag, main performs exactly the first of the
\* flagged actions and exits; execute_tasks is never called, no TaskContext is
\* created, the network file is never loaded and stdin is never read.
C5_IntrospectionOnly ==
    AnyIntrospection(args) =>
        /\ called = <<>>
        /\ history = <<>>
        /\ ctxCount = 0
        /\ ~tasks_ctx.live
        /\ loadCount = 0
        /\ ~stdinRead
        /\ pc \in {"main", "show_read", "show_tokens", "show_parse", "exit"}
        /\ actions = IF pc = "main" THEN <<>> ELSE <<FirstFlag(args)>>

\* --completion together with every script source and --network.
C5_Witness ==
    /\ args.completion # "none"
    /\ ~args.show /\ ~args.generate_doc /\ ~args.fnhelp /\ ~args.fncode
    /\ ~args.list_functions
    /\ args.tasks /\ args.task /\ args.stdin /\ args.network
    /\ pc = "exit"
    /\ exit = "ok"

\* The script sources given, in main's order.
Sources(a) ==
    (IF a.tasks THEN <<"tasks">> ELSE <<>>) \o
    (IF a.task THEN <<"task">> ELSE <<>>) \o
    (IF a.stdin THEN <<"stdin">> ELSE <<>>)

IsPrefix(s, t) == Len(s) <= Len(t) /\ \A i \in 1..Len(s) : s[i] = t[i]

\* C6: sources run in the order tasks file, --task, stdin, each to completion
\* before the next starts; stdin is read before any statement of its script
\* executes; after a failure of any source no later source runs and stdin is
\* not read.
C6_SourceOrder ==
    /\ IsPrefix(called, Sources(args))
    /\ Len(results) <= Len(called)
    /\ Len(called) <= Len(results) + 1
    /\ \A i \in 1..Len(results) :
          results[i].kind = "Err" => i = Len(called) /\ pc = "exit" /\ exit = "err"
    /\ stdinRead =>
          /\ args.stdin
          /\ \A i \in 1..Len(results) : called[i] # "stdin" => results[i].kind = "Ok"
          /\ \A i \in 1..Len(called) : called[i] = "stdin" => i = Len(called)
          /\ Len(called) >= Len(Sources(args)) - 1
    /\ (src = "stdin" /\ called # <<>>) => stdinRead
    /\ (exit = "err") => pc = "exit"
    /\ (exit = "ok" /\ ~AnyIntrospection(args)) =>
          /\ called = Sources(args)
          /\ Len(results) = Len(called)
          /\ \A i \in 1..Len(results) : results[i].kind = "Ok"

\* The --task string fails after the tasks file ran; stdin was asked for.
C6_Witness ==
    /\ called = <<"tasks", "task">>
    /\ Len(results) = 2
    /\ results[1].kind = "Ok"
    /\ results[2].kind = "Err"
    /\ args.stdin
    /\ ~stdinRead
    /\ exit = "err"

\* C7: one context per call, and its network carries forward. A call creates
\* at most one TaskContext, after parsing, and every statement runs against
\* it: the first statement starts from the network the context was created
\* with, statement i+1 starts from exactly the network statement i left, and
\* the context holds what the last executed statement left.
C7_ContextCarries ==
    /\ ctxCount <= 1
    /\ (history # <<>> \/ tasks_ctx.live) => ctxCount = 1
    /\ ctxCount = 1 => (tokens.made /\ tasks = parse(tokens).val /\ parse(tokens).ok)
    /\ pc = "new_ctx" => history = <<>>
    /\ history # <<>> => history[1].start = net
    /\ \A i \in 1..Len(history) :
          i < Len(history) => history[i + 1].start = history[i].end
    /\ tasks_ctx.live =>
          tasks_ctx.network = IF history = <<>> THEN net
                              ELSE history[Len(history)].end

\* A Network-scope statement makes a network where there was none and the
\* Node-scope statement after it is invoked on it.
C7_Witness ==
    /\ Len(history) = 2
    /\ history[1].start = NoNet
    /\ history[1].end = MadeBy(src, 1)
    /\ history[2].fc.scope = "Node"
    /\ history[2].invoked
    /\ history[2].start = MadeBy(src, 1)

EmptyScriptRan == Returned /\ txt.kind = "ok" /\ txt.stmts = <<>>

\* C9 as stated: for a valid script with zero statements execute_tasks
\* returns Ok, executes no statement and prints no statement output, whatever
\* the other arguments.
C9_EmptyScriptOk ==
    EmptyScriptRan =>
        /\ LastResult = OkRes
        /\ history = <<>>
        /\ OutputsPrinted = <<>>

\* C9 amended: for a valid script with zero statements parsing yields the
\* empty sequence, no statement is executed and no statement output printed;
\* execute_tasks returns Ok unless --network is given and the network file
\* fails to load, and then it returns that load error.
C9_EmptyScriptNoOp ==
    EmptyScriptRan =>
        /\ tasks = <<>>
        /\ history = <<>>
        /\ OutputsPrinted = <<>>
        /\ LastResult \in {OkRes, ErrRes("NetworkLoad", 0)}
        /\ LastResult = OkRes <=> ctxCount = 1
        /\ ~args.network => LastResult = OkRes

\* An empty script run to Ok with --network and --print-tasks given.
C9_Witness ==
    /\ EmptyScriptRan
    /\ LastResult = OkRes
    /\ args.network
    /\ args.print_tasks

\* C10: calls are isolated. Every call builds its context from the network
\* of the --network flag, loaded by that call (absent without the flag), and
\* no statement starts from or leaves a network made by a statement of another
\* source.
C10_RunsIsolated ==
    /\ ctxCount = 1 => (net = FlagNet /\ loadCount = IF args.network THEN 1 ELSE 0)
    /\ history # <<>> => history[1].start = FlagNet
    /\ \A i \in 1..Len(history) :
          /\ history[i].start.origin \in {"none", "file", src}
          /\ history[i].end.origin \in {"none", "file", src}
    /\ tasks_ctx.live => tasks_ctx.network.origin \in {"none", "file", src}

\* The tasks file left a network it made; a statement of the --task string
\* runs afterwards.
C10_Witness ==
    /\ called = <<"tasks", "task">>
    /\ InCall
    /\ prevNet.origin = "tasks"
    /\ history # <<>>
    /\ history[1].start = FlagNet

====
